---- MODULE Spec2Model ----
(***************************************************************************)
(* A model of the palette extractor: core/color_ops.py (hex parsing, Lab   *)
(* conversion, the two colour differences, nearest-reference matching, the *)
(* accessibility helpers), core/extractor.py (kmeans_colors) and the part  *)
(* of main.py that builds the extraction records and serialises them.      *)
(*                                                                         *)
(* Numbers.  Python floats are modelled by exact rationals where the code  *)
(* only adds, multiplies, divides and compares (luminance, contrast,       *)
(* weights, hue), and by fixed-point numbers with FX units per 1.0 where   *)
(* the code calls roots and transcendental functions.                      *)
(***************************************************************************)
EXTENDS Integers, Sequences, FiniteSets, TLC

VARIABLES
    hex_str,    \* hex_to_rgb: the argument, a sequence of characters
    hex_ret,    \* hex_to_rgb: NoCall before the call, then the outcome
    bg,         \* accessibility helpers: first colour (the background)
    fg,         \* accessibility helpers: second colour
    acc_ret,    \* accessibility helpers: NoCall before the call, then the outcome
    image,      \* kmeans_colors: the RGB image, [h, w, px] with px row by row
    k,          \* kmeans_colors: the number of clusters asked for
    sample,     \* kmeans_colors: the subsample cap
    max_side,   \* kmeans_colors: the largest side kept without downscaling
    km_ret,     \* kmeans_colors: NoCall before the call, then the outcome
    lab_rgb,    \* rgb_to_lab: the batch of integer colours passed in
    lab_ret,    \* rgb_to_lab: NoCall before the call, then the outcome
    de_lab1,    \* deltaE76 / deltaE2000: the first batch of Lab colours
    de_lab2,    \* deltaE76 / deltaE2000: the second batch of Lab colours
    de_ret,     \* deltaE76 / deltaE2000: NoCall, then the distance matrix
    tw_rgb,     \* nearest_tailwind: the colour to match
    tw_entries, \* nearest_tailwind: the reference entries
    tw_lab,     \* nearest_tailwind: the reference Lab array
    method,     \* nearest_tailwind: the metric's name, a sequence of characters
    tw_ret,     \* nearest_tailwind: NoCall before the call, then the outcome
    upload,        \* main.py: the uploaded image
    slider_k,      \* main.py: the "Number of colors" slider
    sort_by,       \* main.py: the "Sort palette by" select box
    show_tailwind, \* main.py: the "Show Tailwind matches" check box
    use_de2000,    \* main.py: the "Use dE2000" check box
    page,          \* main.py: NoCall before the script runs, then its outputs
    net,        \* fetch_tailwind_full_palette: what each candidate answers
    fetch_i,    \* fetch_tailwind_full_palette: the loop's position in CDN_CANDIDATES
    requested,  \* fetch_tailwind_full_palette: the URLs requested so far
    last_err,   \* fetch_tailwind_full_palette: whether last_err holds an exception
    fetch_ret   \* fetch_tailwind_full_palette: NoCall, then the palette returned

hexVars == <<hex_str, hex_ret>>

accVars == <<bg, fg, acc_ret>>

kmVars == <<image, k, sample, max_side, km_ret>>

labVars == <<lab_rgb, lab_ret>>

deVars == <<de_lab1, de_lab2, de_ret>>

twVars == <<tw_rgb, tw_entries, tw_lab, method, tw_ret>>

mainVars == <<upload, slider_k, sort_by, show_tailwind, use_de2000, page>>

fetchVars == <<net, fetch_i, requested, last_err, fetch_ret>>

vars == <<hexVars, accVars, kmVars, labVars, deVars, twVars, mainVars, fetchVars>>

\* What a result variable holds before the call it belongs to.
NoCall == [op |-> "none"]

(***************************************************************************)
(* Generic helpers                                                         *)
(***************************************************************************)
Abs(x) == IF x < 0 THEN -x ELSE x

Max2(x, y) == IF x >= y THEN x ELSE y

Min2(x, y) == IF x <= y THEN x ELSE y

\* p1/q1 >= p2/q2 for p >= 0, q > 0, decided without forming the cross
\* products (which leave the 32-bit range): compare the integer parts, then
\* the reciprocals of the fractional parts.
RECURSIVE RatGeq(_, _, _, _)
RatGeq(p1, q1, p2, q2) ==
    LET i1 == p1 \div q1
        i2 == p2 \div q2
        r1 == p1 % q1
        r2 == p2 % q2
    IN  IF i1 # i2 THEN i1 > i2
        ELSE IF r2 = 0 THEN TRUE
        ELSE IF r1 = 0 THEN FALSE
        ELSE RatGeq(q2, r2, q1, r1)

RatEq(p1, q1, p2, q2) == RatGeq(p1, q1, p2, q2) /\ RatGeq(p2, q2, p1, q1)

(***************************************************************************)
(* core/color_ops.py: hex_to_rgb                                           *)
(***************************************************************************)
HexDigits == <<"0", "1", "2", "3", "4", "5", "6", "7", "8", "9",
               "a", "b", "c", "d", "e", "f">>

IsHexDigit(ch) == \E i \in 1..16 : HexDigits[i] = ch

HexDigitValue(ch) == (CHOOSE i \in 1..16 : HexDigits[i] = ch) - 1

IsSpace(ch) == ch = " "

\* str.lstrip("#"): every leading '#' is dropped, however many there are.
RECURSIVE LStripHash(_)
LStripHash(s) ==
    IF s # <<>> /\ Head(s) = "#" THEN LStripHash(Tail(s)) ELSE s

\* h[i:i+2] for a 0-based i: slicing past the end gives what is there.
Slice2(h, i) == SubSeq(h, Min2(i + 1, Len(h) + 1), Min2(i + 2, Len(h)))

RECURSIVE StripLeft(_)
StripLeft(s) == IF s # <<>> /\ IsSpace(Head(s)) THEN StripLeft(Tail(s)) ELSE s

RECURSIVE StripRight(_)
StripRight(s) ==
    IF s # <<>> /\ IsSpace(s[Len(s)])
    THEN StripRight(SubSeq(s, 1, Len(s) - 1)) ELSE s

RECURSIVE DigitsValue(_, _)
DigitsValue(s, acc) ==
    IF s = <<>> THEN acc
    ELSE DigitsValue(Tail(s), 16 * acc + HexDigitValue(Head(s)))

\* int(s, 16) of Python on the characters of HexAlphabet: surrounding
\* whitespace is stripped, one sign is accepted, and what remains must be a
\* non-empty run of hexadecimal digits; anything else raises ValueError.
IntBase16(s) ==
    LET t == StripRight(StripLeft(s))
        signed == t # <<>> /\ Head(t) \in {"+", "-"}
        d == IF signed THEN Tail(t) ELSE t
        ok == d # <<>> /\ \A i \in 1..Len(d) : IsHexDigit(d[i])
    IN  IF ~ok THEN [ok |-> FALSE, val |-> 0]
        ELSE [ok |-> TRUE,
              val |-> IF signed /\ Head(t) = "-" THEN -DigitsValue(d, 0)
                      ELSE DigitsValue(d, 0)]

hex_to_rgb(s) ==
    LET h == LStripHash(s)
        r == IntBase16(Slice2(h, 0))
        g == IntBase16(Slice2(h, 2))
        b == IntBase16(Slice2(h, 4))
    IN  IF r.ok /\ g.ok /\ b.ok
        THEN [op |-> "hex_to_rgb", ok |-> TRUE, rgb |-> <<r.val, g.val, b.val>>]
        ELSE [op |-> "hex_to_rgb", ok |-> FALSE, rgb |-> <<>>]

(***************************************************************************)
(* core/color_ops.py: accessibility helpers.                               *)
(* A linearised channel is the rational lin / LinDen, a relative luminance *)
(* the rational lum / LumDen, a contrast ratio the pair <<p, q>> for p/q.  *)
(***************************************************************************)
\* Fixed-point numbers: FX units per 1.0 where magnitudes reach a few
\* hundred (the colour differences), LS units per 1.0 where they stay below
\* 2 (the transfer function and the Lab conversion).
FX == 10 * 10 * 10

LS == 10 * FX

\* floor(|a| * |b| / s) and floor(|a| * s / |b|) with the sign of the exact
\* result, split so that no intermediate leaves the 32-bit range.
MulS(a, b, s) ==
    LET sg == IF (a < 0) = (b < 0) THEN 1 ELSE -1
        x == Max2(Abs(a), Abs(b))
        y == Min2(Abs(a), Abs(b))
    IN  sg * ((x \div s) * y + ((x % s) * y) \div s)

DivS(a, b, s) ==
    LET sg == IF (a < 0) = (b < 0) THEN 1 ELSE -1
        x == Abs(a)
        y == Abs(b)
    IN  sg * ((x \div y) * s + ((x % y) * s) \div y)

RECURSIVE PowS(_, _, _)
PowS(x, n, s) == IF n = 0 THEN s ELSE MulS(x, PowS(x, n - 1, s), s)

\* The n-th root of v >= 0: the least y in lo..hi with y^n >= v, by bisection.
RECURSIVE RootS(_, _, _, _, _)
RootS(v, n, lo, hi, s) ==
    IF lo >= hi THEN lo
    ELSE LET mid == (lo + hi) \div 2
         IN  IF PowS(mid, n, s) >= v THEN RootS(v, n, lo, mid, s)
             ELSE RootS(v, n, mid + 1, hi, s)

\* x ** 2.4 = x^2 * (x^2)^(1/5), for 0 <= x < 2.0 in LS units
Pow24(x) == LET x2 == MulS(x, x, LS) IN MulS(x2, RootS(x2, 5, 0, 2 * LS, LS), LS)

LinDen == 16473

\* _srgb_to_lin: c is divided by 255 first and the result is then compared
\* with 0.04045 * 255, so the test reads c / 255 <= 10.31475.  The linear
\* branch is c / 255 / 12.92 = 5 c / 16473; the power branch is
\* ((c / 255 + 0.055 * 255) / (1.055 * 255)) ** 2.4.
SrgbToLinLinear(c) == 5 * c

SrgbToLinPower(c) ==
    (Pow24(((c * 8 + 28611) * LS) \div 548811) * LinDen) \div LS

SrgbTakesLinearBranch(c) == c * 100000 <= 4045 * 255 * 255

srgb_to_lin(c) ==
    IF SrgbTakesLinearBranch(c) THEN SrgbToLinLinear(c) ELSE SrgbToLinPower(c)

LumDen == 10000 * LinDen

relative_luminance(rgb) ==
    2126 * srgb_to_lin(rgb[1]) + 7152 * srgb_to_lin(rgb[2])
        + 722 * srgb_to_lin(rgb[3])

\* 0.05 in LumDen units
LumOffset == LumDen \div 20

contrast_ratio(rgb1, rgb2) ==
    LET L1 == relative_luminance(rgb1)
        L2 == relative_luminance(rgb2)
        hi == IF L1 >= L2 THEN L1 ELSE L2
        lo == IF L1 >= L2 THEN L2 ELSE L1
    IN  <<hi + LumOffset, lo + LumOffset>>

Black == <<0, 0, 0>>

White == <<255, 255, 255>>

RatioGeq(r1, r2) == RatGeq(r1[1], r1[2], r2[1], r2[2])

\* (a slip: the two branches exchanged)
ideal_text_color_Swapped(c) ==
    IF RatioGeq(contrast_ratio(c, White), contrast_ratio(c, Black))
    THEN Black ELSE White

ideal_text_color(c) ==
    IF RatioGeq(contrast_ratio(c, White), contrast_ratio(c, Black))
    THEN White ELSE Black

(***************************************************************************)
(* core/color_ops.py: rgb_to_lab.                                          *)
(* cv2.cvtColor(..., COLOR_BGR2LAB) on an 8-bit image: the channels are    *)
(* linearised, taken to XYZ (D65), then to L*a*b*, and stored as           *)
(* L * 255 / 100, a + 128, b + 128, rounded and saturated to 0..255.       *)
(* Computed in LS units.                                                   *)
(***************************************************************************)
\* A numpy array holds its elements: the sequence with the values of f.
AsArray(f) == <<>> \o f

\* astype(np.uint8) on an integer array keeps the low eight bits
AsUint8(v) == v % 256

CvLinear(c) ==
    IF c * 100000 <= 4045 * 255
    THEN (c * LS * 100) \div (255 * 1292)
    ELSE Pow24(((c * 200 + 2805) * LS) \div 53805)

CvLabF(t) ==
    IF t > 89 THEN RootS(t, 3, 0, 2 * LS, LS)
    ELSE MulS(77870, t, LS) + (16 * LS) \div 116

Saturate8(v) == Max2(0, Min2(255, v))

CvLab8(L, a, b) ==
    << Saturate8((2 * L * 255 + 100 * LS) \div (200 * LS)),
       Saturate8((2 * (a + 128 * LS) + LS) \div (2 * LS)),
       Saturate8((2 * (b + 128 * LS) + LS) \div (2 * LS)) >>

CvLabOfF(Y, fx, fy, fz) ==
    CvLab8(IF Y > 89 THEN 116 * fy - 16 * LS ELSE MulS(9033000, Y, LS),
           500 * (fx - fy), 200 * (fy - fz))

CvXyz2Lab(X, Y, Z) == CvLabOfF(Y, CvLabF(X), CvLabF(Y), CvLabF(Z))

CvRgb2Xyz2Lab(R, G, B) ==
    CvXyz2Lab(DivS((4125 * R + 3576 * G + 1804 * B) \div LS, 9505, LS),
              (2127 * R + 7152 * G + 722 * B) \div LS,
              DivS((193 * R + 1192 * G + 9502 * B) \div LS, 10888, LS))

CvBgr2Lab(rgb) ==
    CvRgb2Xyz2Lab(CvLinear(rgb[1]), CvLinear(rgb[2]), CvLinear(rgb[3]))

\* The batch is cast to uint8 first, whatever its integers are; cvtColor
\* raises on an empty image.
rgb_to_lab(rgb) ==
    IF Len(rgb) = 0 THEN [op |-> "rgb_to_lab", ok |-> FALSE]
    ELSE [op  |-> "rgb_to_lab", ok |-> TRUE,
          lab |-> AsArray([i \in 1..Len(rgb) |->
                      CvBgr2Lab([ch \in 1..3 |-> AsUint8(rgb[i][ch])])])]

(***************************************************************************)
(* core/color_ops.py: deltaE76 and deltaE2000.                             *)
(* Lab components are integers (rgb_to_lab returns the 8-bit values as     *)
(* floats); distances are in FX units, angles in FX units of a radian.     *)
(***************************************************************************)
\* numpy's nan, the square root of a negative number
NaN == -1

\* y * y <= v, exactly, for m = floor(y * y / FX)
SqLeFloor(m, y, v) == m < v \/ (m = v /\ ((y % FX) * (y % FX)) % FX = 0)

SqLe(y, v) == SqLeFloor(MulS(y, y, FX), y, v)

RECURSIVE SqrtSearch(_, _, _)
SqrtSearch(v, lo, hi) ==
    IF lo >= hi THEN lo
    ELSE IF SqLe((lo + hi + 1) \div 2, v)
         THEN SqrtSearch(v, (lo + hi + 1) \div 2, hi)
         ELSE SqrtSearch(v, lo, (lo + hi + 1) \div 2 - 1)

\* np.sqrt: the largest y with y * y <= v, nan for v < 0
SqrtFx(v) == IF v < 0 THEN NaN ELSE SqrtSearch(v, 0, 1000 * FX)

Sq(x) == MulS(x, x, FX)

deltaE76_Pair(p, q) ==
    SqrtFx(Sq((p[1] - q[1]) * FX) + Sq((p[2] - q[2]) * FX)
               + Sq((p[3] - q[3]) * FX))

deltaE76(lab1, lab2) ==
    AsArray([i \in 1..Len(lab1) |-> AsArray([j \in 1..Len(lab2) |->
        deltaE76_Pair(lab1[i], lab2[j])])])

PiFx == 3142

TwoPiFx == 6283

HalfPiFx == 1571

\* Taylor polynomial: sum plus the terms t * x2 / ((n-1) * n), ... of
\* alternating sign up to the power last.
RECURSIVE Taylor(_, _, _, _, _, _)
TaylorAdd(t, x2, n, last, sum, sign) ==
    Taylor(t, x2, n + 2, last, sum + sign * t, -sign)

Taylor(t, x2, n, last, sum, sign) ==
    IF n > last THEN sum
    ELSE TaylorAdd(MulS(t, x2, FX) \div ((n - 1) * n), x2, n, last, sum, sign)

\* on [0, pi/2]
SinSeries(x) == Taylor(x, Sq(x), 3, 9, x, -1)

CosSeries(x) == Taylor(FX, Sq(x), 2, 10, FX, -1)

SinReduced(r) ==
    IF r <= HalfPiFx THEN SinSeries(r)
    ELSE IF r <= PiFx THEN SinSeries(PiFx - r)
    ELSE IF r <= PiFx + HalfPiFx THEN -SinSeries(r - PiFx)
    ELSE -SinSeries(TwoPiFx - r)

SinFx(x) == SinReduced(x % TwoPiFx)

CosFx(x) == SinFx(x + HalfPiFx)

\* The angle of (x, y) in the first quadrant: the largest th in 0..pi/2
\* with sin(th) * x <= cos(th) * y.
RECURSIVE AtanSearch(_, _, _, _)
AtanStep(y, x, lo, hi, mid) ==
    IF MulS(SinSeries(mid), x, FX) <= MulS(CosSeries(mid), y, FX)
    THEN AtanSearch(y, x, mid, hi)
    ELSE AtanSearch(y, x, lo, mid - 1)

AtanSearch(y, x, lo, hi) ==
    IF lo >= hi THEN lo ELSE AtanStep(y, x, lo, hi, (lo + hi + 1) \div 2)

\* np.arctan2, in (-pi, pi]
Arctan2Fx(y, x) ==
    IF x = 0 /\ y = 0 THEN 0
    ELSE IF x >= 0 /\ y >= 0 THEN AtanSearch(y, x, 0, HalfPiFx)
    ELSE IF x < 0 /\ y >= 0 THEN PiFx - AtanSearch(y, -x, 0, HalfPiFx)
    ELSE IF x < 0 /\ y < 0 THEN AtanSearch(-y, -x, 0, HalfPiFx) - PiFx
    ELSE -AtanSearch(-y, x, 0, HalfPiFx)

\* exp(f) for 0 <= f < 1: sum plus the terms t * f / i, ... up to i = 8
RECURSIVE ExpSeries(_, _, _, _)
ExpAdd(t, f, i, sum) == ExpSeries(t, f, i + 1, sum + t)

ExpSeries(t, f, i, sum) ==
    IF i > 8 THEN sum ELSE ExpAdd(MulS(t, f, FX) \div i, f, i, sum)

\* np.exp(-v) for v >= 0
ExpNegFx(v) ==
    IF v >= 7 * FX THEN 0
    ELSE DivS(FX, MulS(PowS(2718, v \div FX, FX),
                       ExpSeries(FX, v % FX, 1, FX), FX), FX)

\* q / (q + 1) and 1 / (1 + q)
QOverQPlus1(q) == DivS(q, q + FX, FX)

OneOverOnePlusQ(q) == DivS(FX, FX + q, FX)

\* c**7 / (c**7 + 25.0**7), through q = (c / 25)**7 or its inverse
Ratio7(c) ==
    IF c <= 25 * FX THEN QOverQPlus1(PowS(DivS(c, 25 * FX, FX), 7, FX))
    ELSE OneOverOnePlusQ(PowS(DivS(25 * FX, c, FX), 7, FX))

\* x / n for an integer n > 0, rounded toward zero
TruncDiv(x, n) == IF x >= 0 THEN x \div n ELSE -((-x) \div n)

\* ang = np.where(ang < 0, ang + 2*np.pi, ang)
WrapPositive(ang) == IF ang < 0 THEN ang + TwoPiFx ELSE ang

\* def _atan2(y, x)
Atan2Pos(y, x) == WrapPositive(Arctan2Fx(y, x))

\* np.rad2deg
Rad2DegFx(x) == MulS(x, 57296, FX)

\* dhp after the two np.where lines
WrapDhp(dhp) ==
    IF dhp > PiFx THEN dhp - TwoPiFx
    ELSE IF dhp < -PiFx THEN dhp + TwoPiFx
    ELSE dhp

\* hp_bar after the two np.where lines, from the plain mean
WrapHpBar(mean, h1p, h2p) ==
    IF Abs(h1p - h2p) > PiFx
    THEN (IF mean + PiFx >= TwoPiFx THEN mean + PiFx - TwoPiFx
          ELSE mean + PiFx)
    ELSE (IF mean >= TwoPiFx THEN mean - TwoPiFx ELSE mean)

TTerm(hp_bar) ==
    FX - MulS(170, CosFx(hp_bar - 524), FX)
       + MulS(240, CosFx(2 * hp_bar), FX)
       + MulS(320, CosFx(3 * hp_bar + 105), FX)
       - MulS(200, CosFx(4 * hp_bar - 1100), FX)

\* SL from (Lp_bar - 50)**2
SLTerm(l50sq) ==
    FX + DivS(MulS(15, l50sq, FX), SqrtFx(20 * FX + l50sq), FX)

\* delta_theta from (np.rad2deg(hp_bar) - 275) / 25
DeltaTheta(u) == MulS(524, ExpNegFx(Sq(u)), FX)

RTTerm(hp_bar, Cp_bar) ==
    -MulS(SinFx(2 * DeltaTheta(TruncDiv(Rad2DegFx(hp_bar) - 275 * FX, 25))),
          2 * SqrtFx(Ratio7(Cp_bar)), FX)

\* The final square root over x = dLp / SL, y = dCp / SC, z = dHp / SH
deltaE2000_Root_NoLightness(x, y, z, RT) ==
    SqrtFx(Sq(y) + Sq(z) + MulS(RT, MulS(y, z, FX), FX))

deltaE2000_Root(x, y, z, RT) ==
    SqrtFx(Sq(x) + Sq(y) + Sq(z) + MulS(RT, MulS(y, z, FX), FX))

deltaE2000_Weigh(dLp, dCp, dHp, Lp_bar, Cp_bar, hp_bar, T) ==
    deltaE2000_Root(DivS(dLp, SLTerm(Sq(Lp_bar - 50 * FX)), FX),
                    DivS(dCp, FX + MulS(45, Cp_bar, FX), FX),
                    DivS(dHp, FX + MulS(MulS(15, Cp_bar, FX), T, FX), FX),
                    RTTerm(hp_bar, Cp_bar))

deltaE2000_Means(dLp, dCp, dHp, Lp_bar, Cp_bar, hp_bar) ==
    deltaE2000_Weigh(dLp, dCp, dHp, Lp_bar, Cp_bar, hp_bar, TTerm(hp_bar))

deltaE2000_Hue(L1, L2, C1p, C2p, h1p, h2p) ==
    deltaE2000_Means(L1 - L2,
                     C1p - C2p,
                     MulS(2 * SqrtFx(MulS(C1p, C2p, FX)),
                          SinFx(TruncDiv(WrapDhp(h2p - h1p), 2)), FX),
                     (L1 + L2) \div 2,
                     (C1p + C2p) \div 2,
                     WrapHpBar((h1p + h2p) \div 2, h1p, h2p))

deltaE2000_Prime(L1, a1p, b1, L2, a2p, b2) ==
    deltaE2000_Hue(L1, L2,
                   SqrtFx(Sq(a1p) + Sq(b1)), SqrtFx(Sq(a2p) + Sq(b2)),
                   Atan2Pos(b1, a1p), Atan2Pos(b2, a2p))

deltaE2000_G(L1, a1, b1, L2, a2, b2, G) ==
    deltaE2000_Prime(L1, MulS(FX + G, a1, FX), b1,
                     L2, MulS(FX + G, a2, FX), b2)

deltaE2000_Chroma(L1, a1, b1, L2, a2, b2, C_bar) ==
    deltaE2000_G(L1, a1, b1, L2, a2, b2, (FX - SqrtFx(Ratio7(C_bar))) \div 2)

\* One element of the matrix, computed in the order of the source: mean
\* C*, G, a', C', h', the differences, the means, T, SL, SC, SH, RT.
deltaE2000_Pair(p, q) ==
    deltaE2000_Chroma(p[1] * FX, p[2] * FX, p[3] * FX,
                      q[1] * FX, q[2] * FX, q[3] * FX,
                      (SqrtFx(Sq(p[2] * FX) + Sq(p[3] * FX))
                          + SqrtFx(Sq(q[2] * FX) + Sq(q[3] * FX))) \div 2)

deltaE2000(lab1, lab2) ==
    AsArray([i \in 1..Len(lab1) |-> AsArray([j \in 1..Len(lab2) |->
        deltaE2000_Pair(lab1[i], lab2[j])])])

(***************************************************************************)
(* core/color_ops.py: nearest_tailwind, with the reference arrays that     *)
(* core/tailwind.py builds for it.                                         *)
(***************************************************************************)
\* str.upper(), on the letters the metric names are written with
UpperChar(ch) ==
    CASE ch = "c" -> "C"
      [] ch = "d" -> "D"
      [] ch = "e" -> "E"
      [] ch = "i" -> "I"
      [] OTHER -> ch

Upper(str) == [i \in 1..Len(str) |-> UpperChar(str[i])]

DE2000Names ==
    { <<"D", "E", "2", "0", "0", "0">>,
      <<"C", "I", "E", "D", "E", "2", "0", "0", "0">>,
      <<"D", "E", "0", "0">> }

\* np.argmin: the first nan if there is one, else the first least element
Argmin_Last(d) ==
    CHOOSE i \in 1..Len(d) :
        /\ \A j \in 1..Len(d) : d[i] <= d[j]
        /\ \A j \in (i + 1)..Len(d) : d[j] # d[i]

Argmin(d) ==
    IF \E i \in 1..Len(d) : d[i] = NaN
    THEN CHOOSE i \in 1..Len(d) :
             d[i] = NaN /\ \A j \in 1..(i - 1) : d[j] # NaN
    ELSE CHOOSE i \in 1..Len(d) :
             /\ \A j \in 1..Len(d) : d[i] <= d[j]
             /\ \A j \in 1..(i - 1) : d[j] # d[i]

MatchError == [op |-> "nearest_tailwind", ok |-> FALSE]

\* entry = tw_entries[k]; return TWMatch(...)
TWMatch(entries, dists, kk) ==
    IF kk > Len(entries) THEN MatchError
    ELSE [op     |-> "nearest_tailwind",
          ok     |-> TRUE,
          name   |-> entries[kk].name,
          shade  |-> entries[kk].shade,
          hex    |-> entries[kk].hex,
          deltaE |-> dists[kk]]

NearestOf(entries, dists) == TWMatch(entries, dists, Argmin(dists))

\* rgb is a colour of bytes, as the extraction returns them.
nearest_tailwind(rgb, entries, ref_lab, meth) ==
    IF Len(ref_lab) = 0 THEN MatchError
    ELSE NearestOf(entries,
                   IF Upper(meth) \in DE2000Names
                   THEN deltaE2000(rgb_to_lab(<<rgb>>).lab, ref_lab)[1]
                   ELSE deltaE76(rgb_to_lab(<<rgb>>).lab, ref_lab)[1])

\* build_tailwind_entries_and_lab_remote: the Lab array of the entries' hex
\* strings
EntriesLab(entries) ==
    IF Len(entries) = 0 THEN <<>>
    ELSE rgb_to_lab(AsArray([i \in 1..Len(entries) |->
                                hex_to_rgb(entries[i].hex).rgb])).lab

(***************************************************************************)
(* core/tailwind.py: _extract_js_object.                                   *)
(* A text is a sequence of pieces: a piece of one character stands for     *)
(* that character, a longer piece for that word ("exports" is the pieces   *)
(* "export", "s").  The pattern                                            *)
(* is written in a raw string with doubled backslashes, so the regular     *)
(* expression it denotes is                                                *)
(*   ( module \ . exports \ s* =  |  export \ s+ default ) \ s*            *)
(*   ( \ { [\sS]* \ } )                                                    *)
(* where \ is a literal backslash, . any character, s and S the letters.   *)
(***************************************************************************)
Backslash == "\\"

\* the piece at position i, "" past either end
At(t, i) == IF i \in 1..Len(t) THEN t[i] ELSE ""

\* the pieces of one character that the texts are written with
CharPieces == {Backslash, ".", " ", "=", "{", "}", ":", ",", "s", "S"}

\* the first position from i on whose piece is not in the set
RECURSIVE SkipWhile(_, _, _)
SkipWhile(t, i, set) ==
    IF At(t, i) \in set THEN SkipWhile(t, i + 1, set) ELSE i

\* ( \ { [\sS]* \ } ) from position g: the position of the closing brace,
\* 0 for no match.  r is the first position after the run of [\sS].
GroupEnd(t, g, r) ==
    IF /\ At(t, g) = Backslash
       /\ At(t, g + 1) = "{"
       /\ r - 1 >= g + 2
       /\ At(t, r - 1) = Backslash
       /\ At(t, r) = "}"
    THEN r ELSE 0

GroupFrom(t, g) == GroupEnd(t, g, SkipWhile(t, g + 2, {Backslash, "s", "S"}))

\* \ s* and the group, from position h: <<start, end>> of the group
TailFrom(t, h) ==
    IF At(t, h) = Backslash
    THEN <<SkipWhile(t, h + 1, {"s"}), GroupFrom(t, SkipWhile(t, h + 1, {"s"}))>>
    ELSE <<0, 0>>

\* the position after ( module \ . exports \ s* = | export \ s+ default )
\* matched from position i, 0 for no match
HeadEnd(t, i) ==
    IF /\ At(t, i) = "module"
       /\ At(t, i + 1) = Backslash
       /\ At(t, i + 2) \in CharPieces
       /\ At(t, i + 3) = "export"
       /\ At(t, i + 4) = "s"
       /\ At(t, i + 5) = Backslash
       /\ At(t, SkipWhile(t, i + 6, {"s"})) = "="
    THEN SkipWhile(t, i + 6, {"s"}) + 1
    ELSE IF /\ At(t, i) = "export"
            /\ At(t, i + 1) = Backslash
            /\ At(t, i + 2) = "s"
            /\ At(t, SkipWhile(t, i + 2, {"s"})) = "default"
    THEN SkipWhile(t, i + 2, {"s"}) + 1
    ELSE 0

\* the group of the match that starts at position i, <<0, 0>> for none
MatchAt(t, i) ==
    IF HeadEnd(t, i) = 0 THEN <<0, 0>> ELSE TailFrom(t, HeadEnd(t, i))

\* re.search: the match at the leftmost position that has one
RECURSIVE ReSearch(_, _)
ReSearch(t, i) ==
    IF i > Len(t) THEN <<0, 0>>
    ELSE IF MatchAt(t, i)[2] # 0 THEN MatchAt(t, i)
    ELSE ReSearch(t, i + 1)

\* m.group(2), or ValueError
ExtractOf(js_text, m) ==
    IF m[2] = 0 THEN [ok |-> FALSE]
    ELSE [ok |-> TRUE, text |-> SubSeq(js_text, m[1], m[2])]

_extract_js_object(js_text) == ExtractOf(js_text, ReSearch(js_text, 1))

(***************************************************************************)
(* core/tailwind.py: fetch_tailwind_full_palette.                          *)
(* A palette is the sequence of its families in insertion order, each with *)
(* the sequence of its shades.                                             *)
(***************************************************************************)
FALLBACK_TAILWIND ==
    << [name |-> "slate", shades |-> << [shade |-> 200, hex |-> "#e2e8f0"], [shade |-> 400, hex |-> "#94a3b8"], [shade |-> 600, hex |-> "#475569"] >>],
       [name |-> "gray", shades |-> << [shade |-> 200, hex |-> "#e5e7eb"], [shade |-> 400, hex |-> "#9ca3af"], [shade |-> 600, hex |-> "#4b5563"] >>],
       [name |-> "zinc", shades |-> << [shade |-> 200, hex |-> "#e4e4e7"], [shade |-> 400, hex |-> "#a1a1aa"], [shade |-> 600, hex |-> "#52525b"] >>],
       [name |-> "neutral", shades |-> << [shade |-> 200, hex |-> "#e5e5e5"], [shade |-> 400, hex |-> "#a3a3a3"], [shade |-> 600, hex |-> "#525252"] >>],
       [name |-> "stone", shades |-> << [shade |-> 200, hex |-> "#e7e5e4"], [shade |-> 400, hex |-> "#a8a29e"], [shade |-> 600, hex |-> "#57534e"] >>],
       [name |-> "red", shades |-> << [shade |-> 200, hex |-> "#fecaca"], [shade |-> 400, hex |-> "#f87171"], [shade |-> 600, hex |-> "#dc2626"] >>],
       [name |-> "orange", shades |-> << [shade |-> 200, hex |-> "#fed7aa"], [shade |-> 400, hex |-> "#fb923c"], [shade |-> 600, hex |-> "#ea580c"] >>],
       [name |-> "amber", shades |-> << [shade |-> 200, hex |-> "#fde68a"], [shade |-> 400, hex |-> "#f59e0b"], [shade |-> 600, hex |-> "#d97706"] >>],
       [name |-> "yellow", shades |-> << [shade |-> 200, hex |-> "#fef08a"], [shade |-> 400, hex |-> "#facc15"], [shade |-> 600, hex |-> "#ca8a04"] >>],
       [name |-> "lime", shades |-> << [shade |-> 200, hex |-> "#d9f99d"], [shade |-> 400, hex |-> "#84cc16"], [shade |-> 600, hex |-> "#65a30d"] >>],
       [name |-> "green", shades |-> << [shade |-> 200, hex |-> "#bbf7d0"], [shade |-> 400, hex |-> "#22c55e"], [shade |-> 600, hex |-> "#16a34a"] >>],
       [name |-> "emerald", shades |-> << [shade |-> 200, hex |-> "#a7f3d0"], [shade |-> 400, hex |-> "#10b981"], [shade |-> 600, hex |-> "#059669"] >>],
       [name |-> "teal", shades |-> << [shade |-> 200, hex |-> "#99f6e4"], [shade |-> 400, hex |-> "#14b8a6"], [shade |-> 600, hex |-> "#0d9488"] >>],
       [name |-> "cyan", shades |-> << [shade |-> 200, hex |-> "#a5f3fc"], [shade |-> 400, hex |-> "#22d3ee"], [shade |-> 600, hex |-> "#0891b2"] >>],
       [name |-> "sky", shades |-> << [shade |-> 200, hex |-> "#bae6fd"], [shade |-> 400, hex |-> "#38bdf8"], [shade |-> 600, hex |-> "#0284c7"] >>],
       [name |-> "blue", shades |-> << [shade |-> 200, hex |-> "#bfdbfe"], [shade |-> 400, hex |-> "#60a5fa"], [shade |-> 600, hex |-> "#2563eb"] >>],
       [name |-> "indigo", shades |-> << [shade |-> 200, hex |-> "#c7d2fe"], [shade |-> 400, hex |-> "#818cf8"], [shade |-> 600, hex |-> "#4f46e5"] >>],
       [name |-> "violet", shades |-> << [shade |-> 200, hex |-> "#ddd6fe"], [shade |-> 400, hex |-> "#a78bfa"], [shade |-> 600, hex |-> "#7c3aed"] >>],
       [name |-> "purple", shades |-> << [shade |-> 200, hex |-> "#e9d5ff"], [shade |-> 400, hex |-> "#c084fc"], [shade |-> 600, hex |-> "#9333ea"] >>],
       [name |-> "fuchsia", shades |-> << [shade |-> 200, hex |-> "#fad6ff"], [shade |-> 400, hex |-> "#e879f9"], [shade |-> 600, hex |-> "#c026d3"] >>],
       [name |-> "pink", shades |-> << [shade |-> 200, hex |-> "#fbcfe8"], [shade |-> 400, hex |-> "#f472b6"], [shade |-> 600, hex |-> "#db2777"] >>],
       [name |-> "rose", shades |-> << [shade |-> 200, hex |-> "#fecdd3"], [shade |-> 400, hex |-> "#fb7185"], [shade |-> 600, hex |-> "#e11d48"] >>] >>

CDN_CANDIDATES ==
    << "https://cdn.jsdelivr.net/npm/tailwindcss@3.4.10/src/public/colors.js",
       "https://unpkg.com/tailwindcss@3.4.10/src/public/colors.js",
       "https://raw.githubusercontent.com/tailwindlabs/tailwindcss/master/src/public/colors.js" >>

\* a piece that is a key or a value of an object literal
IsWord(piece) ==
    piece \notin CharPieces \cup {"", "module", "export", "default"}

ParseFail == [ok |-> FALSE]

\* The members "key: value" of an inner object from position i, up to its
\* closing brace; a comma may follow the last member.
RECURSIVE ParseShades(_, _, _)
ParseShades(t, i, acc) ==
    IF At(t, i) = "}" THEN [ok |-> TRUE, next |-> i + 1, val |-> acc]
    ELSE IF IsWord(At(t, i)) /\ At(t, i + 1) = ":" /\ IsWord(At(t, i + 2))
    THEN (IF At(t, i + 3) = ","
          THEN ParseShades(t, i + 4,
                   Append(acc, [key |-> t[i], hex |-> t[i + 2]]))
          ELSE IF At(t, i + 3) = "}"
          THEN [ok |-> TRUE, next |-> i + 4,
                val |-> Append(acc, [key |-> t[i], hex |-> t[i + 2]])]
          ELSE ParseFail)
    ELSE ParseFail

\* The members of the outer object from position i: a member's value is a
\* word or an inner object.
RECURSIVE ParseEntries(_, _, _)
ParseAfterValue(t, i, acc) ==
    IF At(t, i) = "," THEN ParseEntries(t, i + 1, acc)
    ELSE IF At(t, i) = "}" THEN [ok |-> TRUE, next |-> i + 1, val |-> acc]
    ELSE ParseFail

ParseAfterInner(t, name, inner, acc) ==
    IF ~inner.ok THEN ParseFail
    ELSE ParseAfterValue(t, inner.next,
             Append(acc, [name |-> name, dict |-> TRUE, shades |-> inner.val]))

ParseEntries(t, i, acc) ==
    IF At(t, i) = "}" THEN [ok |-> TRUE, next |-> i + 1, val |-> acc]
    ELSE IF IsWord(At(t, i)) /\ At(t, i + 1) = ":"
    THEN (IF At(t, i + 2) = "{"
          THEN ParseAfterInner(t, t[i], ParseShades(t, i + 3, <<>>), acc)
          ELSE IF IsWord(At(t, i + 2))
          THEN ParseAfterValue(t, i + 3,
                   Append(acc, [name |-> t[i], dict |-> FALSE,
                                shades |-> <<>>]))
          ELSE ParseFail)
    ELSE ParseFail

NotSpace(piece) == piece # " "

ParseWhole(t, parsed) ==
    IF parsed.ok /\ parsed.next = Len(t) + 1 THEN parsed ELSE ParseFail

ParseObject(t) ==
    IF At(t, 1) = "{" THEN ParseWhole(t, ParseEntries(t, 2, <<>>))
    ELSE ParseFail

\* json5.loads(obj_text), for the object literals of two levels; any other
\* text, one that begins with a backslash included, is an error here or in
\* raw.items().
Json5Loads(obj_text) == ParseObject(SelectSeq(obj_text, NotSpace))

\* int(s) of a shade key
ShadeKeys == {<<"200", 200>>, <<"400", 400>>, <<"600", 600>>}

IsShadeKey(s) == \E kv \in ShadeKeys : kv[1] = s

IntOf(s) == (CHOOSE kv \in ShadeKeys : kv[1] = s)[2]

IsDict(entry) == entry.dict

NotAlias(entry) == entry.name \notin {"lightBlue", "warmGray", "blueGray"}

BadKeys(raw) ==
    \E i \in 1..Len(raw) : raw[i].dict /\
        \E j \in 1..Len(raw[i].shades) : ~IsShadeKey(raw[i].shades[j].key)

ShadesOf(shades) ==
    AsArray([j \in 1..Len(shades) |->
                [shade |-> IntOf(shades[j].key), hex |-> shades[j].hex]])

FamiliesOf(kept) ==
    AsArray([i \in 1..Len(kept) |->
                [name |-> kept[i].name, shades |-> ShadesOf(kept[i].shades)]])

\* The palette of a parsed object: the members that are objects, their
\* keys as integers, without the deprecated aliases.
PaletteOf(raw) ==
    IF BadKeys(raw) THEN ParseFail
    ELSE [ok |-> TRUE,
          palette |-> FamiliesOf(SelectSeq(SelectSeq(raw, IsDict), NotAlias))]

PaletteOfLoaded(loaded) ==
    IF loaded.ok THEN PaletteOf(loaded.val) ELSE ParseFail

PaletteOfExtract(extracted) ==
    IF extracted.ok THEN PaletteOfLoaded(Json5Loads(extracted.text))
    ELSE ParseFail

\* One pass of the loop body on the answer of a candidate: requests.get,
\* raise_for_status, _extract_js_object, json5.loads and the rebuild of the
\* palette; any exception makes the pass fail.
Attempt(response) ==
    IF response.kind = "error" THEN ParseFail
    ELSE IF response.status >= 400 THEN ParseFail
    ELSE PaletteOfExtract(_extract_js_object(response.text))

(***************************************************************************)
(* core/extractor.py: kmeans_colors                                        *)
(***************************************************************************)
RECURSIVE SumSeq(_)
SumSeq(s) == IF s = <<>> THEN 0 ELSE Head(s) + SumSeq(Tail(s))

\* Quotient rounded to the nearest integer, halves upwards.
RoundDiv(n, d) == (2 * n + d) \div (2 * d)

\* The length that source cell i and output cell r share along one axis, the
\* axis being cut into src source cells of length dst each and into dst
\* output cells of length src each (0-based i and r).
Overlap(i, r, src, dst) ==
    Max2(0, Min2((i + 1) * dst, (r + 1) * src) - Max2(i * dst, r * src))

\* cv2.resize(arr, (nw, nh), interpolation=cv2.INTER_AREA) for nh <= h and
\* nw <= w: each output pixel is the average of the source pixels weighted
\* by the area each shares with it, rounded to 8 bits.
AreaPixel(img, nh, nw, r, c) ==
    [ch \in 1..3 |->
        RoundDiv(
            SumSeq([n \in 1..(img.h * img.w) |->
                Overlap((n - 1) \div img.w, r, img.h, nh)
                    * Overlap((n - 1) % img.w, c, img.w, nw)
                    * img.px[n][ch]]),
            img.h * img.w)]

ResizeArea(img, nh, nw) ==
    [h |-> nh, w |-> nw,
     px |-> [n \in 1..(nh * nw) |->
                AreaPixel(img, nh, nw, (n - 1) \div nw, (n - 1) % nw)]]

\* int(w * scale) with scale = max_side / max(h, w): the product truncated.
\* (The float product equals the exact quotient for the sizes modelled.)
ScaledSide(side, ms, m) == (side * ms) \div m

NeedsDownscale(img, ms) == Max2(img.h, img.w) > ms

\* cv2.resize raises cv2.error when a side of the requested size is 0.
ResizeRaises(img, ms) ==
    /\ NeedsDownscale(img, ms)
    /\ \/ ScaledSide(img.w, ms, Max2(img.h, img.w)) = 0
       \/ ScaledSide(img.h, ms, Max2(img.h, img.w)) = 0

\* arr after the optional downscale
Frame(img, ms) ==
    IF NeedsDownscale(img, ms)
    THEN ResizeArea(img, ScaledSide(img.h, ms, Max2(img.h, img.w)),
                         ScaledSide(img.w, ms, Max2(img.h, img.w)))
    ELSE img

\* The rows of pixels that may be handed to k-means: all of them, or any
\* choice of `cap` of them when there are more than `cap` (rng.choice without
\* replacement; the seed fixes one choice, the model allows each).
DataChoices(n, cap) ==
    IF n > cap THEN {D \in SUBSET (1..n) : Cardinality(D) = cap}
    ELSE {1..n}

\* cv2.kmeans raises cv2.error when there are fewer samples than clusters.
KmeansRaises(D, kk) == Cardinality(D) < kk

Labelings(D, kk) ==
    {lab \in [D -> 1..kk] : \A j \in 1..kk : \E i \in D : lab[i] = j}

RECURSIVE SumOver(_, _, _)
SumOver(S, px, ch) ==
    IF S = {} THEN 0
    ELSE LET i == CHOOSE x \in S : TRUE
         IN  px[i][ch] + SumOver(S \ {i}, px, ch)

\* centers.clip(0, 255).astype(np.uint8): the mean of each cluster, its
\* fraction dropped.
ClipToByte(num, den) == Max2(0, Min2(255, num \div den))

\* cv2.kmeans returns, for some split of the samples into kk non-empty
\* clusters, the mean of each cluster.
CentersOf(px, D, lab, kk) ==
    [j \in 1..kk |->
        LET S == {i \in D : lab[i] = j}
        IN  [ch \in 1..3 |-> ClipToByte(SumOver(S, px, ch), Cardinality(S))]]

KmeansCenters(px, D, kk) == {CentersOf(px, D, lab, kk) : lab \in Labelings(D, kk)}

SqDist(p, c) ==
    (p[1] - c[1]) * (p[1] - c[1]) + (p[2] - c[2]) * (p[2] - c[2])
        + (p[3] - c[3]) * (p[3] - c[3])

\* d2.argmin(axis=1): the first index at which the distance is least.
ArgminCenter(p, centers) ==
    CHOOSE j \in 1..Len(centers) :
        /\ \A i \in 1..Len(centers) : SqDist(p, centers[j]) <= SqDist(p, centers[i])
        /\ \A i \in 1..(j - 1) : SqDist(p, centers[i]) > SqDist(p, centers[j])

\* (a slip: the counts taken over the subsample's share of the pixels)
Bincount_OverSample(px, centers) ==
    [j \in 1..Len(centers) |->
        Cardinality({n \in 1..Min2(Len(px), 3) : ArgminCenter(px[n], centers) = j})]

\* np.bincount(labels, minlength=k) over the pixels of the frame
Bincount(px, centers) ==
    [j \in 1..Len(centers) |->
        Cardinality({n \in 1..Len(px) : ArgminCenter(px[n], centers) = j})]

\* counts / counts.sum(): each weight is the rational <<count, total>>.
Weights(counts) == [j \in 1..Len(counts) |-> <<counts[j], SumSeq(counts)>>]

\* (-weights).argsort(): an order in which the weights do not increase.
\* The default sort is not stable, so equal weights may come in any order.
ArgsortDesc(weights) ==
    {ord \in [1..Len(weights) -> 1..Len(weights)] :
        /\ \A i, j \in 1..Len(weights) : i # j => ord[i] # ord[j]
        /\ \A i \in 1..(Len(weights) - 1) :
              weights[ord[i]][1] >= weights[ord[i + 1]][1]}

Reorder(seq, ord) == [i \in 1..Len(ord) |-> seq[ord[i]]]

\* (a slip: the weights sorted, the centres left in k-means' order)
KmeansReturn_CentersUnsorted(centers, weights, ord) ==
    [op |-> "kmeans_colors", ok |-> TRUE,
     centers |-> centers,
     weights |-> Reorder(weights, ord),
     raw |-> centers, order |-> ord]

\* What kmeans_colors returns, centers[order] and weights[order].  raw and
\* order record the centres as cv2.kmeans gave them and the permutation
\* applied; the caller does not see them.
KmeansReturn(centers, weights, ord) ==
    [op |-> "kmeans_colors", ok |-> TRUE,
     centers |-> Reorder(centers, ord),
     weights |-> Reorder(weights, ord),
     raw |-> centers, order |-> ord]

KmeansError == [op |-> "kmeans_colors", ok |-> FALSE]

\* The outcomes of the weighting and the sort for the centres c
WeighAndSort(frame, c) ==
    LET weights == Weights(Bincount(frame.px, c))
    IN  {KmeansReturn(c, weights, ord) : ord \in ArgsortDesc(weights)}

\* Every outcome of kmeans_colors(image, k, sample, seed, max_side)
kmeans_colors(img, kk, cap, ms) ==
    IF ResizeRaises(img, ms) THEN {KmeansError}
    ELSE LET frame == Frame(img, ms)
             centers == UNION {IF KmeansRaises(D, kk) THEN {}
                               ELSE KmeansCenters(frame.px, D, kk) :
                               D \in DataChoices(Len(frame.px), cap)}
         IN  (IF \E D \in DataChoices(Len(frame.px), cap) : KmeansRaises(D, kk)
              THEN {KmeansError} ELSE {})
                 \cup UNION {WeighAndSort(frame, c) : c \in centers}

(***************************************************************************)
(* main.py: one run of the script with an image uploaded.  The records of  *)
(* raw_items, their sort, and the two serialised outputs.                  *)
(***************************************************************************)
HexChars ==
    <<"0", "1", "2", "3", "4", "5", "6", "7",
      "8", "9", "a", "b", "c", "d", "e", "f">>

\* "{:02x}" of a byte
Hex2(v) == <<HexChars[(v \div 16) + 1], HexChars[(v % 16) + 1]>>

rgb_to_hex(rgb) == <<"#">> \o Hex2(rgb[1]) \o Hex2(rgb[2]) \o Hex2(rgb[3])

\* The hue in degrees that colorsys.rgb_to_hsv gives, as the rational
\* <<numerator, denominator>>.
rgb_to_hsv_deg(rgb) ==
    LET maxc == Max2(rgb[1], Max2(rgb[2], rgb[3]))
        minc == Min2(rgb[1], Min2(rgb[2], rgb[3]))
        rangec == maxc - minc
        h == IF rgb[1] = maxc THEN rgb[2] - rgb[3]
             ELSE IF rgb[2] = maxc THEN 2 * rangec + rgb[3] - rgb[1]
             ELSE 4 * rangec + rgb[1] - rgb[2]
    IN  IF minc = maxc THEN <<0, 1>>
        ELSE <<(60 * h) % (360 * rangec), rangec>>

\* 0.2126 * (r/255) + 0.7152 * (g/255) + 0.0722 * (b/255), times 2550000
luminance(rgb) == 2126 * rgb[1] + 7152 * rgb[2] + 722 * rgb[3]

None == [none |-> TRUE]

wcag_label(best_cr) ==
    IF RatGeq(best_cr[1], best_cr[2], 7, 1) THEN "AAA"
    ELSE IF RatGeq(best_cr[1], best_cr[2], 9, 2) THEN "AA"
    ELSE IF RatGeq(best_cr[1], best_cr[2], 3, 1) THEN "AA (Large)"
    ELSE "N/A"

\* The reference arrays the page was started with: entries of the fallback
\* table and their Lab array.
TW_ENTRIES ==
    << [name |-> "red",  shade |-> 400, hex |-> <<"#", "f", "8", "7", "1", "7", "1">>],
       [name |-> "blue", shade |-> 600, hex |-> <<"#", "2", "5", "6", "3", "e", "b">>] >>

TW_LAB == EntriesLab(TW_ENTRIES)

\* tw = {"token": f"{twm.name}-{twm.shade}", "hex": ..., "deltaE": ...}
TailwindOf(twm) ==
    [token  |-> <<twm.name, "-", twm.shade>>,
     hex    |-> twm.hex,
     deltaE |-> twm.deltaE]

\* raw_items.append({...})
ItemRecord(idx, c, w, tw, cr_b, cr_w) ==
    [index      |-> idx,
     hex        |-> rgb_to_hex(c),
     rgb        |-> c,
     weight     |-> w,
     tailwind   |-> tw,
     ideal_text |-> ideal_text_color(c),
     cr_black   |-> cr_b,
     cr_white   |-> cr_w,
     wcag_label |-> wcag_label(IF RatioGeq(cr_b, cr_w) THEN cr_b ELSE cr_w),
     hue        |-> rgb_to_hsv_deg(c),
     lum        |-> luminance(c)]

\* One record of raw_items.
RawItem(idx, c, w, show, de2000) ==
    ItemRecord(idx, c, w,
               IF show
               THEN TailwindOf(nearest_tailwind(c, TW_ENTRIES, TW_LAB,
                        IF de2000 THEN <<"D", "E", "2", "0", "0", "0">>
                        ELSE <<"D", "E", "7", "6">>))
               ELSE None,
               contrast_ratio(c, Black),
               contrast_ratio(c, White))

\* key(x) < key(y) for the key that the select box names
KeyLess(x, y, by) ==
    IF by = "weight (desc)"
    THEN x.weight[1] * y.weight[2] > y.weight[1] * x.weight[2]
    ELSE IF by = "hue (asc)"
    THEN x.hue[1] * y.hue[2] < y.hue[1] * x.hue[2]
    ELSE x.lum < y.lum

\* The place of raw[i] in the sorted list: after the records of smaller
\* key and after the earlier records of equal key.
Rank(raw, by, i) ==
    1 + Cardinality({j \in 1..Len(raw) :
                        /\ j # i
                        /\ \/ KeyLess(raw[j], raw[i], by)
                           \/ (~KeyLess(raw[i], raw[j], by) /\ j < i)})

\* sorted(raw_items, key = ...): ascending in the key, equal keys in their
\* order in raw_items
Sorted(raw, by) ==
    AsArray([p \in 1..Len(raw) |->
                raw[CHOOSE i \in 1..Len(raw) : Rank(raw, by, i) = p]])

\* for i, it in enumerate(items, start=1): the line "--color-i: hex;"
css_vars(items) ==
    [i \in 1..Len(items) |->
        [name |-> <<"--color-", i>>, value |-> items[i].hex]]

RECURSIVE tw_tokens_From(_, _)
tw_tokens_From(items, i) ==
    IF i > Len(items) THEN <<>>
    ELSE (IF items[i].tailwind # None
          THEN << [name  |-> <<"color-", i>>,
                   token |-> items[i].tailwind.token] >>
          ELSE <<>>) \o tw_tokens_From(items, i + 1)

\* the entries '"color-i": "token"' of the items that have a match
tw_tokens(items) == tw_tokens_From(items, 1)

MainError == [op |-> "main", ok |-> FALSE]

Outputs(items) ==
    [op        |-> "main",
     ok        |-> TRUE,
     items     |-> items,
     css_vars  |-> css_vars(items),
     tw_tokens |-> tw_tokens(items)]

\* The page for one outcome of kmeans_colors(image, k=k)
PageOf(km, by, show, de2000) ==
    IF ~km.ok THEN MainError
    ELSE Outputs(Sorted(AsArray([idx \in 1..Len(km.centers) |->
                             RawItem(idx, km.centers[idx], km.weights[idx],
                                     show, de2000)]), by))

(***************************************************************************)
(* The state of each group of variables while another group's              *)
(* specification runs.                                                     *)
(***************************************************************************)
HexIdle == hex_str = <<>> /\ hex_ret = NoCall

AccIdle == bg = Black /\ fg = Black /\ acc_ret = NoCall

DefaultSample == 400000

DefaultMaxSide == 1024

NoImage == [h |-> 1, w |-> 1, px |-> <<Black>>]

KmIdle ==
    /\ image = NoImage
    /\ k = 1
    /\ sample = DefaultSample
    /\ max_side = DefaultMaxSide
    /\ km_ret = NoCall

LabIdle == lab_rgb = <<>> /\ lab_ret = NoCall

DeIdle == de_lab1 = <<>> /\ de_lab2 = <<>> /\ de_ret = NoCall

TwIdle ==
    /\ tw_rgb = Black
    /\ tw_entries = <<>>
    /\ tw_lab = <<>>
    /\ method = <<>>
    /\ tw_ret = NoCall

MainIdle ==
    /\ upload = NoImage
    /\ slider_k = 3
    /\ sort_by = "weight (desc)"
    /\ show_tailwind = TRUE
    /\ use_de2000 = TRUE
    /\ page = NoCall

FetchIdle ==
    /\ net = <<>>
    /\ fetch_i = 1
    /\ requested = <<>>
    /\ last_err = FALSE
    /\ fetch_ret = NoCall

(***************************************************************************)
(* Specification SpecHex: hex_to_rgb applied to every string of at most    *)
(* MaxHexLen characters of HexAlphabet.                                    *)
(***************************************************************************)
MaxHexLen == 7

HexAlphabet == {"#", "0", "f", "-", " ", "g"}

HexInputs == UNION {[1..n -> HexAlphabet] : n \in 0..MaxHexLen}

InitHex ==
    /\ hex_str \in HexInputs
    /\ hex_ret = NoCall
    /\ AccIdle /\ KmIdle /\ LabIdle /\ DeIdle /\ TwIdle /\ MainIdle /\ FetchIdle

HexToRgb ==
    /\ hex_ret = NoCall
    /\ hex_ret' = hex_to_rgb(hex_str)
    /\ UNCHANGED <<hex_str, accVars, kmVars, labVars, deVars, twVars, mainVars, fetchVars>>

NextHex == HexToRgb

SpecHex == InitHex /\ [][NextHex]_vars

(***************************************************************************)
(* Specification SpecAcc: the accessibility helpers applied to colours     *)
(* whose channels are drawn from Chan.                                     *)
(***************************************************************************)
Chan == {0, 10, 11, 100, 128, 255}

RGBs == {<<r, g, b>> : r \in Chan, g \in Chan, b \in Chan}

InitAcc ==
    /\ bg \in RGBs
    /\ fg \in RGBs
    /\ acc_ret = NoCall
    /\ HexIdle /\ KmIdle /\ LabIdle /\ DeIdle /\ TwIdle /\ MainIdle /\ FetchIdle

ContrastRatio ==
    /\ acc_ret = NoCall
    /\ acc_ret' = [op |-> "contrast_ratio", val |-> contrast_ratio(bg, fg)]
    /\ UNCHANGED <<bg, fg, hexVars, kmVars, labVars, deVars, twVars, mainVars, fetchVars>>

IdealTextColor ==
    /\ acc_ret = NoCall
    /\ acc_ret' = [op |-> "ideal_text_color", val |-> ideal_text_color(bg)]
    /\ UNCHANGED <<bg, fg, hexVars, kmVars, labVars, deVars, twVars, mainVars, fetchVars>>

NextAcc == ContrastRatio \/ IdealTextColor

SpecAcc == InitAcc /\ [][NextAcc]_vars

(***************************************************************************)
(* Specification SpecKm: kmeans_colors applied to every image of at most   *)
(* MaxPixels pixels drawn from Palette.                                    *)
(***************************************************************************)
MaxPixels == 4

MaxK == 3

Palette == {<<255, 0, 0>>, <<0, 0, 255>>}

SampleCaps == {3, DefaultSample}

MaxSides == {1, 2, DefaultMaxSide}

Images ==
    UNION {[h : {hh}, w : {ww}, px : [1..(hh * ww) -> Palette]] :
              <<hh, ww>> \in {d \in (1..MaxPixels) \X (1..MaxPixels) :
                                d[1] * d[2] <= MaxPixels}}

InitKm ==
    /\ image \in Images
    /\ k \in 1..MaxK
    /\ sample \in SampleCaps
    /\ max_side \in MaxSides
    /\ km_ret = NoCall
    /\ HexIdle /\ AccIdle /\ LabIdle /\ DeIdle /\ TwIdle /\ MainIdle /\ FetchIdle

KmeansColors ==
    /\ km_ret = NoCall
    /\ km_ret' \in kmeans_colors(image, k, sample, max_side)
    /\ UNCHANGED <<image, k, sample, max_side, hexVars, accVars, labVars, deVars,
                   twVars, mainVars, fetchVars>>

NextKm == KmeansColors

SpecKm == InitKm /\ [][NextKm]_vars

(***************************************************************************)
(* Specification SpecLab: rgb_to_lab applied to every batch of at most     *)
(* MaxRgbBatch colours whose channels are integers of LabChan, in and out  *)
(* of the byte range.                                                      *)
(***************************************************************************)
MaxRgbBatch == 1

LabChan == {-1, 0, 255, 256}

LabBatches ==
    UNION {[1..n -> {<<r, g, b>> : r \in LabChan, g \in LabChan, b \in LabChan}] :
              n \in 0..MaxRgbBatch}

InitLab ==
    /\ lab_rgb \in LabBatches
    /\ lab_ret = NoCall
    /\ HexIdle /\ AccIdle /\ KmIdle /\ DeIdle /\ TwIdle /\ MainIdle /\ FetchIdle

RgbToLab ==
    /\ lab_ret = NoCall
    /\ lab_ret' = rgb_to_lab(lab_rgb)
    /\ UNCHANGED <<lab_rgb, hexVars, accVars, kmVars, deVars, twVars, mainVars, fetchVars>>

NextLab == RgbToLab

SpecLab == InitLab /\ [][NextLab]_vars

(***************************************************************************)
(* Specification SpecDelta: the two colour differences applied to every    *)
(* pair of batches of at most MaxLabBatch colours of LabGrid.              *)
(***************************************************************************)
MaxLabBatch == 1

\* Black and red as rgb_to_lab returns them, a colour one unit of L away
\* from that red, an achromatic colour, and two colours whose hues lie on
\* the two sides of the angle 0.
LabGrid ==
    { <<0, 128, 128>>, <<136, 208, 195>>, <<137, 208, 195>>,
      <<50, 0, 0>>, <<50, 30, -1>>, <<50, 30, 1>> }

DeBatches == UNION {[1..n -> LabGrid] : n \in 1..MaxLabBatch}

InitDelta ==
    /\ de_lab1 \in DeBatches
    /\ de_lab2 \in DeBatches
    /\ de_ret = NoCall
    /\ HexIdle /\ AccIdle /\ KmIdle /\ LabIdle /\ TwIdle /\ MainIdle /\ FetchIdle

DeltaE76 ==
    /\ de_ret = NoCall
    /\ de_ret' = [op |-> "deltaE76", d |-> deltaE76(de_lab1, de_lab2)]
    /\ UNCHANGED <<de_lab1, de_lab2, hexVars, accVars, kmVars, labVars, twVars, mainVars, fetchVars>>

DeltaE2000 ==
    /\ de_ret = NoCall
    /\ de_ret' = [op |-> "deltaE2000", d |-> deltaE2000(de_lab1, de_lab2)]
    /\ UNCHANGED <<de_lab1, de_lab2, hexVars, accVars, kmVars, labVars, twVars, mainVars, fetchVars>>

NextDelta == DeltaE76 \/ DeltaE2000

SpecDelta == InitDelta /\ [][NextDelta]_vars

(***************************************************************************)
(* Specification SpecMatch: nearest_tailwind applied to colours of         *)
(* MatchColors, every reference list of at most MaxRef entries of          *)
(* RefEntries with its Lab array, and the metric names of Methods.         *)
(***************************************************************************)
MaxRef == 3

\* red-400 and blue-600 of the fallback table, and a second name for the
\* colour of red-400
RefEntries ==
    { [name |-> "red",   shade |-> 400, hex |-> <<"#", "f", "8", "7", "1", "7", "1">>],
      [name |-> "brand", shade |-> 400, hex |-> <<"#", "f", "8", "7", "1", "7", "1">>],
      [name |-> "blue",  shade |-> 600, hex |-> <<"#", "2", "5", "6", "3", "e", "b">>] }

MatchColors == { <<248, 113, 113>>, <<255, 0, 0>>, <<0, 0, 255>> }

Methods ==
    { <<"D", "E", "7", "6">>, <<"D", "E", "2", "0", "0", "0">>,
      <<"d", "e", "0", "0">> }

InitMatch ==
    /\ tw_entries \in UNION {[1..n -> RefEntries] : n \in 0..MaxRef}
    /\ tw_lab = EntriesLab(tw_entries)
    /\ tw_rgb \in MatchColors
    /\ method \in Methods
    /\ tw_ret = NoCall
    /\ HexIdle /\ AccIdle /\ KmIdle /\ LabIdle /\ DeIdle /\ MainIdle /\ FetchIdle

NearestTailwind ==
    /\ tw_ret = NoCall
    /\ tw_ret' = nearest_tailwind(tw_rgb, tw_entries, tw_lab, method)
    /\ UNCHANGED <<tw_rgb, tw_entries, tw_lab, method, hexVars, accVars,
                   kmVars, labVars, deVars, mainVars, fetchVars>>

NextMatch == NearestTailwind

SpecMatch == InitMatch /\ [][NextMatch]_vars

(***************************************************************************)
(* Specification SpecMain: one run of main.py for every uploaded image of  *)
(* MinSliderK..MaxUpload pixels of UploadPalette in a row and every        *)
(* setting of the side bar, the slider up to MaxSliderK.                   *)
(***************************************************************************)
MinSliderK == 3

MaxSliderK == 3

MaxUpload == 3

UploadPalette == {<<255, 0, 0>>, <<0, 0, 255>>, <<128, 128, 128>>}

Uploads ==
    UNION {[h : {1}, w : {n}, px : [1..n -> UploadPalette]] :
              n \in MinSliderK..MaxUpload}

SortKeys == {"weight (desc)", "hue (asc)", "luminance (asc)"}

InitMain ==
    /\ upload \in Uploads
    /\ slider_k \in MinSliderK..MaxSliderK
    /\ sort_by \in SortKeys
    /\ show_tailwind \in BOOLEAN
    /\ use_de2000 \in BOOLEAN
    /\ page = NoCall
    /\ HexIdle /\ AccIdle /\ KmIdle /\ LabIdle /\ DeIdle /\ TwIdle /\ FetchIdle

Rerun ==
    /\ page = NoCall
    /\ \E km \in kmeans_colors(upload, slider_k, DefaultSample, DefaultMaxSide) :
           page' = PageOf(km, sort_by, show_tailwind, use_de2000)
    /\ UNCHANGED <<upload, slider_k, sort_by, show_tailwind, use_de2000,
                   hexVars, accVars, kmVars, labVars, deVars, twVars, fetchVars>>

NextMain == Rerun

SpecMain == InitMain /\ [][NextMain]_vars

(***************************************************************************)
(* Specification SpecFetch: one call of fetch_tailwind_full_palette, one   *)
(* step per pass of its loop, for every way the candidates can answer:     *)
(* the request raises, or it returns a status and a text of Texts.         *)
(***************************************************************************)
ColorsJsModule ==
    << "module", ".", "export", "s", " ", "=", " ", "{",
       "red", ":", "{", "400", ":", "#f87171", "}", ",",
       "black", ":", "#000", ",",
       "lightBlue", ":", "{", "400", ":", "#38bdf8", "}", "}" >>

ColorsJsDefault ==
    << "export", " ", "default", " ", "{",
       "blue", ":", "{", "600", ":", "#2563eb", "}", "}" >>

\* a text with the backslashes the pattern asks for
ColorsJsBackslashes ==
    << "module", Backslash, ".", "export", "s", Backslash, "=", Backslash,
       Backslash, "{", Backslash, "}" >>

NotFoundPage == << "Not", " ", "Found" >>

Texts == {ColorsJsModule, ColorsJsDefault, ColorsJsBackslashes, NotFoundPage}

Responses ==
    {[kind |-> "error"]} \cup
    {[kind |-> "http", status |-> 404, text |-> NotFoundPage]} \cup
    {[kind |-> "http", status |-> 200, text |-> t] : t \in Texts}

InitFetch ==
    /\ net \in [1..Len(CDN_CANDIDATES) -> Responses]
    /\ fetch_i = 1
    /\ requested = <<>>
    /\ last_err = FALSE
    /\ fetch_ret = NoCall
    /\ HexIdle /\ AccIdle /\ KmIdle /\ LabIdle /\ DeIdle /\ TwIdle /\ MainIdle

\* The outcome of one pass: return palette on success, otherwise
\* last_err = e and continue.
TryCandidate_Outcome(attempt) ==
    IF attempt.ok
    THEN /\ fetch_ret' = [op |-> "fetch_tailwind_full_palette",
                          palette |-> attempt.palette]
         /\ UNCHANGED <<fetch_i, last_err>>
    ELSE /\ last_err' = TRUE
         /\ fetch_i' = fetch_i + 1
         /\ UNCHANGED fetch_ret

TryCandidate ==
    /\ fetch_ret = NoCall
    /\ fetch_i <= Len(CDN_CANDIDATES)
    /\ requested' = Append(requested, CDN_CANDIDATES[fetch_i])
    /\ TryCandidate_Outcome(Attempt(net[fetch_i]))
    /\ UNCHANGED <<net, hexVars, accVars, kmVars, labVars, deVars, twVars, mainVars>>

\* After the loop: return FALLBACK_TAILWIND.
ReturnFallback ==
    /\ fetch_ret = NoCall
    /\ fetch_i > Len(CDN_CANDIDATES)
    /\ fetch_ret' = [op |-> "fetch_tailwind_full_palette",
                     palette |-> FALLBACK_TAILWIND]
    /\ UNCHANGED <<net, fetch_i, requested, last_err,
                   hexVars, accVars, kmVars, labVars, deVars, twVars, mainVars>>

NextFetch == TryCandidate \/ ReturnFallback

SpecFetch == InitFetch /\ [][NextFetch]_vars


(***************************************************************************)
(* Claims                                                                  *)
(***************************************************************************)
WellFormedHex(s) ==
    /\ Len(s) = 7
    /\ s[1] = "#"
    /\ \A i \in 2..7 : IsHexDigit(s[i])

\* C7: hex_to_rgb returns a colour only for '#' followed by exactly six
\* hexadecimal digits, and every colour it returns has its three channels
\* in 0..255.
C7_HexRejectsMalformed ==
    (hex_ret.op = "hex_to_rgb" /\ hex_ret.ok) =>
        /\ WellFormedHex(hex_str)
        /\ \A i \in 1..3 : hex_ret.rgb[i] \in 0..255

\* C4: contrast_ratio(black, white) is 21, contrast_ratio(X, X) is 1, and a
\* channel takes the linear segment of the transfer function only when
\* c / 255 <= 0.04045.
C4_ContrastRatioWcag ==
    acc_ret.op = "contrast_ratio" =>
        /\ (bg = Black /\ fg = White) => acc_ret.val[1] = 21 * acc_ret.val[2]
        /\ bg = fg => acc_ret.val[1] = acc_ret.val[2]
        /\ \A i \in 1..3 :
              SrgbTakesLinearBranch(bg[i]) <=> bg[i] * 100000 <= 4045 * 255

KmReturned == km_ret.op = "kmeans_colors" /\ km_ret.ok

\* C1: when kmeans_colors returns, the numerators of the weights (the
\* per-centre pixel counts) add up to the number of pixels of the frame
\* left by the optional downscale, whether or not k-means ran on a
\* subsample, and every weight is its count over that total, so that the
\* weights add up to 1.
C1_WeightsSumToOne ==
    KmReturned =>
        LET total == Len(Frame(image, max_side).px)
        IN  /\ total > 0
            /\ SumSeq([i \in 1..Len(km_ret.weights) |-> km_ret.weights[i][1]]) = total
            /\ \A i \in 1..Len(km_ret.weights) :
                  km_ret.weights[i][1] >= 0 /\ km_ret.weights[i][2] = total

C1_Witness ==
    /\ KmReturned
    /\ Len(Frame(image, max_side).px) > sample
    /\ k = 3
    /\ km_ret.weights[1][1] > km_ret.weights[2][1]
    /\ km_ret.weights[2][1] > km_ret.weights[3][1]

\* centre j is the nearest to pixel p: none is nearer, and none before it
\* is as near.
IsNearest(p, centers, j) ==
    /\ \A i \in 1..Len(centers) : SqDist(p, centers[j]) <= SqDist(p, centers[i])
    /\ \A i \in 1..Len(centers) : i < j => SqDist(p, centers[i]) # SqDist(p, centers[j])

\* C2: kmeans_colors returns k centres and k weights, the weights do not
\* increase, and the i-th weight is the share of the frame's pixels whose
\* nearest centre (lowest index among equally near ones, in the order
\* k-means gave the centres) is the i-th centre returned.
C2_SortedAndPaired ==
    KmReturned =>
        LET frame == Frame(image, max_side)
            ord == km_ret.order
        IN  /\ Len(km_ret.centers) = k
            /\ Len(km_ret.weights) = k
            /\ \A i \in 1..(k - 1) :
                  km_ret.weights[i][1] * km_ret.weights[i + 1][2]
                      >= km_ret.weights[i + 1][1] * km_ret.weights[i][2]
            /\ \A i, j \in 1..k : i # j => ord[i] # ord[j]
            /\ \A i \in 1..k :
                  /\ km_ret.centers[i] = km_ret.raw[ord[i]]
                  /\ km_ret.weights[i] =
                        <<Cardinality({n \in 1..Len(frame.px) :
                                         IsNearest(frame.px[n], km_ret.raw, ord[i])}),
                          Len(frame.px)>>

C2_Witness ==
    /\ KmReturned
    /\ k = 3
    /\ km_ret.order = <<2, 3, 1>>
    /\ km_ret.raw[1] # km_ret.raw[2]
    /\ km_ret.raw[2] # km_ret.raw[3]
    /\ km_ret.raw[1] # km_ret.raw[3]

\* C9: kmeans_colors never raises on an image of at least one pixel and a
\* k >= 1, and returns k centres and k weights.
C9_KmeansNeverRaises ==
    km_ret.op = "kmeans_colors" =>
        /\ km_ret.ok
        /\ Len(km_ret.centers) = k
        /\ Len(km_ret.weights) = k

\* C8: rgb_to_lab fails whenever a channel of a colour of the batch lies
\* outside 0..255; such a channel is never converted into a Lab result.
C8_LabRejectsOutOfRange ==
    (/\ lab_ret.op = "rgb_to_lab"
     /\ \E i \in 1..Len(lab_rgb) : \E ch \in 1..3 : lab_rgb[i][ch] \notin 0..255)
        => ~lab_ret.ok

\* C6: deltaE76 and deltaE2000 are numbers, never negative, and zero
\* exactly for the pairs made of the same Lab triple.
C6_DeltaZeroIffSame ==
    de_ret.op \in {"deltaE76", "deltaE2000"} =>
        \A i \in 1..Len(de_lab1) : \A j \in 1..Len(de_lab2) :
            /\ de_ret.d[i][j] # NaN
            /\ de_ret.d[i][j] >= 0
            /\ (de_ret.d[i][j] = 0) <=> (de_lab1[i] = de_lab2[j])

C6_Witness ==
    /\ de_ret.op = "deltaE2000"
    /\ de_lab1 = <<(<<136, 208, 195>>)>>
    /\ de_lab2 = <<(<<137, 208, 195>>)>>
    /\ de_ret.d[1][1] > 0

\* The distances from the matched colour to the reference entries, in
\* their order, under the metric that the method's name selects.
RefDists ==
    AsArray([j \in 1..Len(tw_lab) |->
                IF Upper(method) \in DE2000Names
                THEN deltaE2000_Pair(rgb_to_lab(<<tw_rgb>>).lab[1], tw_lab[j])
                ELSE deltaE76_Pair(rgb_to_lab(<<tw_rgb>>).lab[1], tw_lab[j])])

\* C3: for a non-empty reference array nearest_tailwind returns the entry
\* at the least distance under the selected metric, with that distance,
\* and of several entries at the least distance the first one.
C3_NearestFirstMinimal ==
    (tw_ret.op = "nearest_tailwind" /\ Len(tw_lab) > 0) =>
        \E dist \in {RefDists} :
            /\ tw_ret.ok
            /\ \E i \in 1..Len(tw_lab) :
                   /\ \A j \in 1..Len(tw_lab) : dist[i] <= dist[j]
                   /\ \A j \in 1..(i - 1) : dist[j] > dist[i]
                   /\ tw_ret.deltaE = dist[i]
                   /\ tw_ret.name = tw_entries[i].name
                   /\ tw_ret.shade = tw_entries[i].shade
                   /\ tw_ret.hex = tw_entries[i].hex

C3_Witness ==
    /\ tw_ret.op = "nearest_tailwind"
    /\ tw_ret.ok
    /\ Len(tw_lab) = 3
    /\ tw_entries[1].name = "blue"
    /\ tw_entries[2].name = "brand"
    /\ tw_entries[3].name = "red"
    /\ tw_ret.name = "brand"
    /\ RefDists[2] = RefDists[3]

\* C10: for every sort key, the stylesheet line --color-N carries the hex
\* of the record whose index field is N, and the token entry color-N the
\* matched token of that same record.
C10_SerializedByIndex ==
    (page.op = "main" /\ page.ok) =>
        \A p \in 1..Len(page.items) :
            LET it == page.items[p]
            IN  /\ \E q \in 1..Len(page.css_vars) :
                       /\ page.css_vars[q].name = <<"--color-", it.index>>
                       /\ page.css_vars[q].value = it.hex
                /\ it.tailwind # None =>
                       \E q \in 1..Len(page.tw_tokens) :
                           /\ page.tw_tokens[q].name = <<"color-", it.index>>
                           /\ page.tw_tokens[q].token = it.tailwind.token

\* C11: the frame used for clustering and weighting has both dimensions at
\* least 1 and at most max_side, and an image whose larger dimension does
\* not exceed max_side is left as it is.
C11_FrameWithinMaxSide ==
    km_ret.op = "kmeans_colors" =>
        \E frame \in {Frame(image, max_side)} :
            /\ frame.h \in 1..max_side
            /\ frame.w \in 1..max_side
            /\ Max2(image.h, image.w) <= max_side => frame = image

\* The object literal a colors.js text assigns to module.exports or exports
\* by default: from the brace after the head to the last brace of the text.
Spaces(t, i) == SkipWhile(t, i, {" "})

HeadBrace(t, i) ==
    IF /\ At(t, i) = "module" /\ At(t, i + 1) = "."
       /\ At(t, i + 2) = "export" /\ At(t, i + 3) = "s"
       /\ At(t, Spaces(t, i + 4)) = "="
       /\ At(t, Spaces(t, Spaces(t, i + 4) + 1)) = "{"
    THEN Spaces(t, Spaces(t, i + 4) + 1)
    ELSE IF /\ At(t, i) = "export" /\ At(t, i + 1) = " "
            /\ At(t, Spaces(t, i + 1)) = "default"
            /\ At(t, Spaces(t, Spaces(t, i + 1) + 1)) = "{"
    THEN Spaces(t, Spaces(t, i + 1) + 1)
    ELSE 0

HasObjectLiteral(t) ==
    \E i \in 1..Len(t) : \E r \in 1..Len(t) :
        HeadBrace(t, i) # 0 /\ r > HeadBrace(t, i) /\ t[r] = "}"

ObjectLiteral(t) ==
    SubSeq(t, HeadBrace(t, CHOOSE i \in 1..Len(t) : HeadBrace(t, i) # 0
                               /\ \A j \in 1..(i - 1) : HeadBrace(t, j) = 0),
           CHOOSE r \in 1..Len(t) : t[r] = "}"
               /\ \A q \in (r + 1)..Len(t) : t[q] # "}")

AnswersWithObject(response) ==
    /\ response.kind = "http"
    /\ response.status = 200
    /\ HasObjectLiteral(response.text)

FetchReturned == fetch_ret.op = "fetch_tailwind_full_palette"

\* C12: the candidates are requested in their listed order; the palette
\* returned is the one parsed from the first candidate that answers
\* successfully with a text holding a module.exports or export default
\* object literal, and no later candidate is requested; the fallback is
\* returned only when every candidate fails.
C12_FirstAnsweringCandidate ==
    FetchReturned =>
        \E good \in {{i \in 1..Len(CDN_CANDIDATES) : AnswersWithObject(net[i])}} :
            IF good = {}
            THEN /\ fetch_ret.palette = FALLBACK_TAILWIND
                 /\ requested = CDN_CANDIDATES
            ELSE \E first \in {i \in good : \A j \in good : i <= j} :
                    /\ requested = SubSeq(CDN_CANDIDATES, 1, first)
                    /\ fetch_ret.palette =
                           PaletteOfLoaded(Json5Loads(
                               ObjectLiteral(net[first].text))).palette
====
